---- MODULE Spec2Model ----
(***************************************************************************)
(* Model of contexts/user-context.tsx: the UserProvider component, its two *)
(* effects (load from localStorage, save to localStorage), the six         *)
(* mutation callbacks, and the React state-update queue they feed.         *)
(***************************************************************************)
EXTENDS Integers, Sequences, FiniteSets, TLC

(***************************************************************************)
(* JavaScript values.  Every value has the same four fields so that any    *)
(* two values can be compared: t is the type tag, n the number (or 0/1 of  *)
(* a boolean), s the string, e the elements of an array or the ordered     *)
(* property list of an object (records [k |-> key, v |-> value]).          *)
(***************************************************************************)
Null == [t |-> "null", n |-> 0, s |-> "", e |-> <<>>]

Undefined == [t |-> "undefined", n |-> 0, s |-> "", e |-> <<>>]

Num(i) == [t |-> "num", n |-> i, s |-> "", e |-> <<>>]

Str(x) == [t |-> "str", n |-> 0, s |-> x, e |-> <<>>]

Bool(b) == [t |-> "bool", n |-> IF b THEN 1 ELSE 0, s |-> "", e |-> <<>>]

Arr(items) == [t |-> "arr", n |-> 0, s |-> "", e |-> items]

Obj(props) == [t |-> "obj", n |-> 0, s |-> "", e |-> props]

P(key, val) == [k |-> key, v |-> val]

\* The value an exception thrown while computing a state update stands for.
Throw == [t |-> "throw", n |-> 0, s |-> "TypeError", e |-> <<>>]

\* JavaScript truthiness, as tested by `if (savedUser)`, `user &&`, `prev ?`.
Truthy(v) ==
  CASE v.t = "null" -> FALSE
    [] v.t = "undefined" -> FALSE
    [] v.t = "bool" -> v.n = 1
    [] v.t = "num" -> v.n # 0
    [] v.t = "str" -> v.s # ""
    [] OTHER -> TRUE

\* The own enumerable keys of a value, in property order.
RECURSIVE KeysOf(_)
KeysOf(props) ==
  IF props = <<>> THEN <<>> ELSE <<Head(props).k>> \o KeysOf(Tail(props))

Keys(v) == IF v.t = "obj" THEN KeysOf(v.e) ELSE <<>>

KeySet(v) == {Keys(v)[i] : i \in 1..Len(Keys(v))}

HasKey(v, key) == key \in KeySet(v)

\* Property read `v.key`: undefined when the property is missing.
RECURSIVE Lookup(_, _)
Lookup(props, key) ==
  IF props = <<>> THEN Undefined
  ELSE IF Head(props).k = key THEN Head(props).v
  ELSE Lookup(Tail(props), key)

Get(v, key) == IF v.t = "obj" THEN Lookup(v.e, key) ELSE Undefined

\* Property write into a property list: an existing key keeps its position
\* and takes the new value, a new key is added at the end.
RECURSIVE SetProp(_, _, _)
SetProp(props, key, val) ==
  IF props = <<>> THEN <<P(key, val)>>
  ELSE IF Head(props).k = key THEN <<P(key, val)>> \o Tail(props)
  ELSE <<Head(props)>> \o SetProp(Tail(props), key, val)

\* Object spread `{...a, ...b}` onto the property list acc: copies the own
\* properties of src in order.  Spreading null, undefined, a number or a
\* boolean copies nothing.
RECURSIVE SpreadInto(_, _)
SpreadInto(acc, srcProps) ==
  IF srcProps = <<>> THEN acc
  ELSE SpreadInto(SetProp(acc, Head(srcProps).k, Head(srcProps).v), Tail(srcProps))

Spread(acc, src) == IF src.t = "obj" THEN SpreadInto(acc, src.e) ELSE acc

(***************************************************************************)
(* JSON text.  A text is a sequence of tokens; whitespace is a token of    *)
(* its own, so two different texts can denote the same value.              *)
(***************************************************************************)
Tok(kind) == [k |-> kind, n |-> 0, s |-> ""]

NumTok(i) == [k |-> "num", n |-> i, s |-> ""]

StrTok(x) == [k |-> "str", n |-> 0, s |-> x]

\* JSON.stringify(v) for the values that reach it.  A property whose value
\* is undefined is left out of an object.
RECURSIVE Stringify(_)
RECURSIVE StringifyItems(_)
RECURSIVE StringifyProps(_, _)
StringifyItems(items) ==
  IF items = <<>> THEN <<>>
  ELSE (IF Head(items).t = "undefined" THEN <<Tok("null")>> ELSE Stringify(Head(items)))
       \o (IF Len(items) > 1 THEN <<Tok(",")>> ELSE <<>>)
       \o StringifyItems(Tail(items))

StringifyProps(props, first) ==
  IF props = <<>> THEN <<>>
  ELSE IF Head(props).v.t = "undefined" THEN StringifyProps(Tail(props), first)
  ELSE (IF first THEN <<>> ELSE <<Tok(",")>>)
       \o <<StrTok(Head(props).k), Tok(":")>>
       \o Stringify(Head(props).v)
       \o StringifyProps(Tail(props), FALSE)

\* Mutant of Stringify: the value is written by its string conversion,
\* "[object Object]" for an object.
StringifyAsString(v) ==
  IF v.t = "obj" THEN <<Tok("["), Tok("object"), Tok("Object"), Tok("]")>>
  ELSE <<Tok("null")>>

Stringify(v) ==
  CASE v.t = "null" -> <<Tok("null")>>
    [] v.t = "bool" -> <<Tok(IF v.n = 1 THEN "true" ELSE "false")>>
    [] v.t = "num" -> <<NumTok(v.n)>>
    [] v.t = "str" -> <<StrTok(v.s)>>
    [] v.t = "arr" -> <<Tok("[")>> \o StringifyItems(v.e) \o <<Tok("]")>>
    [] v.t = "obj" -> <<Tok("{")>> \o StringifyProps(v.e, TRUE) \o <<Tok("}")>>

\* JSON.parse(text): a recursive-descent parser.  Each parsing operator
\* returns [ok, val, next]: whether it succeeded, the value, and the index
\* of the first token it did not consume.  ok = FALSE is a SyntaxError.
ParseFail == [ok |-> FALSE, val |-> Null, next |-> 0]

RECURSIVE SkipWs(_, _)
SkipWs(text, i) ==
  IF i <= Len(text) /\ text[i].k = "ws" THEN SkipWs(text, i + 1) ELSE i

KindAt(text, i) == IF i <= Len(text) THEN text[i].k ELSE "eof"

RECURSIVE ParseValue(_, _)
RECURSIVE ParseElements(_, _, _)
RECURSIVE ParseMembers(_, _, _)
ParseElements(text, i, acc) ==
  LET r == ParseValue(text, i)
      j == SkipWs(text, r.next)
  IN  IF ~r.ok THEN ParseFail
      ELSE IF KindAt(text, j) = "," THEN ParseElements(text, j + 1, Append(acc, r.val))
      ELSE IF KindAt(text, j) = "]" THEN [ok |-> TRUE, val |-> Arr(Append(acc, r.val)), next |-> j + 1]
      ELSE ParseFail

ParseMembers(text, i, acc) ==
  LET j == SkipWs(text, i)
      c == SkipWs(text, j + 1)
      r == ParseValue(text, c + 1)
      d == SkipWs(text, r.next)
  IN  IF KindAt(text, j) # "str" \/ KindAt(text, c) # ":" THEN ParseFail
      ELSE IF ~r.ok THEN ParseFail
      ELSE IF KindAt(text, d) = "," THEN ParseMembers(text, d + 1, SetProp(acc, text[j].s, r.val))
      ELSE IF KindAt(text, d) = "}" THEN [ok |-> TRUE, val |-> Obj(SetProp(acc, text[j].s, r.val)), next |-> d + 1]
      ELSE ParseFail

ParseValue(text, i) ==
  LET j == SkipWs(text, i)
      kind == KindAt(text, j)
  IN  CASE kind = "null" -> [ok |-> TRUE, val |-> Null, next |-> j + 1]
        [] kind = "true" -> [ok |-> TRUE, val |-> Bool(TRUE), next |-> j + 1]
        [] kind = "false" -> [ok |-> TRUE, val |-> Bool(FALSE), next |-> j + 1]
        [] kind = "num" -> [ok |-> TRUE, val |-> Num(text[j].n), next |-> j + 1]
        [] kind = "str" -> [ok |-> TRUE, val |-> Str(text[j].s), next |-> j + 1]
        [] kind = "[" ->
             IF KindAt(text, SkipWs(text, j + 1)) = "]"
             THEN [ok |-> TRUE, val |-> Arr(<<>>), next |-> SkipWs(text, j + 1) + 1]
             ELSE ParseElements(text, j + 1, <<>>)
        [] kind = "{" ->
             IF KindAt(text, SkipWs(text, j + 1)) = "}"
             THEN [ok |-> TRUE, val |-> Obj(<<>>), next |-> SkipWs(text, j + 1) + 1]
             ELSE ParseMembers(text, j + 1, <<>>)
        [] OTHER -> ParseFail

\* JSON.parse: the whole text must be one value, whitespace aside.
Parse(text) ==
  LET r == ParseValue(text, 1)
  IN  IF r.ok /\ SkipWs(text, r.next) = Len(text) + 1
      THEN [ok |-> TRUE, val |-> r.val]
      ELSE [ok |-> FALSE, val |-> Null]

(***************************************************************************)
(* The hardcoded default profile.                                          *)
(***************************************************************************)
defaultUser ==
  Obj(<<
    P("firstName", Str("Alex")),
    P("lastName", Str("Johnson")),
    P("email", Str("alex.johnson@email.com")),
    P("phone", Str("+1 (555) 123-4567")),
    P("dateOfBirth", Str("1990-05-15")),
    P("gender", Str("male")),
    P("address", Str("123 Health St, Wellness City, WC 12345")),
    P("emergencyContact", Str("Jane Johnson - +1 (555) 987-6543")),
    P("medicalConditions", Str("Hypertension, Type 2 Diabetes")),
    P("allergies", Str("Penicillin, Shellfish")),
    P("bloodType", Str("A+")),
    P("height", Str("5'10\"")),
    P("weight", Str("175 lbs")),
    P("language", Str("en")),
    P("notifications", Bool(TRUE)),
    P("currentMedications", Arr(<<
      Obj(<<P("id", Str("1")), P("name", Str("Lisinopril")), P("dosage", Str("10mg")),
            P("frequency", Str("Once daily")), P("startDate", Str("2024-01-15")),
            P("instructions", Str("Take with food in the morning"))>>),
      Obj(<<P("id", Str("2")), P("name", Str("Metformin")), P("dosage", Str("500mg")),
            P("frequency", Str("Twice daily")), P("startDate", Str("2024-01-15")),
            P("instructions", Str("Take with meals"))>>)
    >>)),
    P("healthGoals", Arr(<<
      Obj(<<P("id", Str("1")), P("type", Str("water")), P("target", Num(8)),
            P("current", Num(5)), P("unit", Str("glasses"))>>),
      Obj(<<P("id", Str("2")), P("type", Str("steps")), P("target", Num(10000)),
            P("current", Num(7500)), P("unit", Str("steps"))>>),
      Obj(<<P("id", Str("3")), P("type", Str("weight")), P("target", Num(170)),
            P("current", Num(175)), P("unit", Str("lbs"))>>)
    >>)),
    P("vitalSigns", Arr(<<
      Obj(<<P("id", Str("1")), P("type", Str("blood_pressure")), P("value", Num(125)),
            P("unit", Str("mmHg")), P("date", Str("2024-01-20")), P("time", Str("08:00"))>>),
      Obj(<<P("id", Str("2")), P("type", Str("heart_rate")), P("value", Num(72)),
            P("unit", Str("bpm")), P("date", Str("2024-01-20")), P("time", Str("08:00"))>>),
      Obj(<<P("id", Str("3")), P("type", Str("blood_sugar")), P("value", Num(110)),
            P("unit", Str("mg/dL")), P("date", Str("2024-01-20")), P("time", Str("08:00"))>>)
    >>)),
    P("appointments", Arr(<<
      Obj(<<P("id", Str("1")), P("doctorName", Str("Dr. Sarah Wilson")),
            P("specialty", Str("Cardiologist")), P("date", Str("2024-01-25")),
            P("time", Str("10:00 AM")), P("type", Str("Follow-up")),
            P("status", Str("scheduled"))>>)
    >>))
  >>)

(***************************************************************************)
(* The state updaters passed to setUser by the six mutation callbacks.     *)
(* Each returns the next value of user, or Throw when evaluating it raises.*)
(***************************************************************************)
\* An array method or an array spread applied to v raises a TypeError
\* unless v is an array (no text of InitialStorage holds a string there).
IsArray(v) == v.t = "arr"

\* Reading a property of null or undefined raises a TypeError.
Nullish(v) == v.t \in {"null", "undefined"}

AnyNullish(items) == \E i \in 1..Len(items) : Nullish(items[i])

\* Mutant of filterById: only the first entry with the id is removed.
RECURSIVE filterFirstById(_, _)
filterFirstById(items, medicationId) ==
  IF items = <<>> THEN <<>>
  ELSE IF Get(Head(items), "id") # Str(medicationId)
       THEN <<Head(items)>> \o filterFirstById(Tail(items), medicationId)
       ELSE Tail(items)

\* Array.prototype.filter with the predicate (med) => med.id !== medicationId
RECURSIVE filterById(_, _)
filterById(items, medicationId) ==
  IF items = <<>> THEN <<>>
  ELSE IF Get(Head(items), "id") # Str(medicationId)
       THEN <<Head(items)>> \o filterById(Tail(items), medicationId)
       ELSE filterById(Tail(items), medicationId)

\* Mutants of mapGoals: a goal is added when no goal has the id; only the
\* first goal with the id is patched.
RECURSIVE mapGoalsUpsert(_, _, _)
mapGoalsUpsert(items, goalId, updates) ==
  IF items = <<>> THEN <<Obj(Spread(<<P("id", Str(goalId))>>, updates))>>
  ELSE IF Get(Head(items), "id") = Str(goalId)
       THEN <<Obj(Spread(Spread(<<>>, Head(items)), updates))>> \o Tail(items)
       ELSE <<Head(items)>> \o mapGoalsUpsert(Tail(items), goalId, updates)

RECURSIVE mapGoalsFirstOnly(_, _, _)
mapGoalsFirstOnly(items, goalId, updates) ==
  IF items = <<>> THEN <<>>
  ELSE IF Get(Head(items), "id") = Str(goalId)
       THEN <<Obj(Spread(Spread(<<>>, Head(items)), updates))>> \o Tail(items)
       ELSE <<Head(items)>> \o mapGoalsFirstOnly(Tail(items), goalId, updates)

\* Array.prototype.map with
\* (goal) => (goal.id === goalId ? { ...goal, ...updates } : goal)
RECURSIVE mapGoals(_, _, _)
mapGoals(items, goalId, updates) ==
  IF items = <<>> THEN <<>>
  ELSE <<IF Get(Head(items), "id") = Str(goalId)
         THEN Obj(Spread(Spread(<<>>, Head(items)), updates))
         ELSE Head(items)>>
       \o mapGoals(Tail(items), goalId, updates)

\* Mutant of WithField: the other fields of prev are not copied.
WithFieldOnly(prev, key, val) == Obj(<<P(key, val)>>)

\* { ...prev, [key]: val }
WithField(prev, key, val) == Obj(SetProp(Spread(<<>>, prev), key, val))

\* Mutants of updateUserFn: without the test of prev; with prev spread last.
updateUserFnUnguarded(prev, updates) == Obj(Spread(Spread(<<>>, prev), updates))

updateUserFnPrevLast(prev, updates) ==
  IF Truthy(prev) THEN Obj(Spread(Spread(<<>>, updates), prev)) ELSE Null

updateUserFn(prev, updates) ==
  IF Truthy(prev) THEN Obj(Spread(Spread(<<>>, prev), updates)) ELSE Null

\* Mutant of appendTo: the new item is put first.
appendToFront(prev, key, item) ==
  IF Truthy(prev)
  THEN IF IsArray(Get(prev, key))
       THEN WithField(prev, key, Arr(<<item>> \o Get(prev, key).e))
       ELSE Throw
  ELSE Null

appendTo(prev, key, item) ==
  IF Truthy(prev)
  THEN IF IsArray(Get(prev, key))
       THEN WithField(prev, key, Arr(Append(Get(prev, key).e, item)))
       ELSE Throw
  ELSE Null

addMedicationFn(prev, medication) == appendTo(prev, "currentMedications", medication)

removeMedicationFn(prev, medicationId) ==
  IF Truthy(prev)
  THEN IF IsArray(Get(prev, "currentMedications"))
          /\ ~AnyNullish(Get(prev, "currentMedications").e)
       THEN WithField(prev, "currentMedications",
                      Arr(filterById(Get(prev, "currentMedications").e, medicationId)))
       ELSE Throw
  ELSE Null

addVitalSignFn(prev, vitalSign) == appendTo(prev, "vitalSigns", vitalSign)

addAppointmentFn(prev, appointment) == appendTo(prev, "appointments", appointment)

updateHealthGoalFn(prev, goalId, updates) ==
  IF Truthy(prev)
  THEN IF IsArray(Get(prev, "healthGoals")) /\ ~AnyNullish(Get(prev, "healthGoals").e)
       THEN WithField(prev, "healthGoals",
                      Arr(mapGoals(Get(prev, "healthGoals").e, goalId, updates)))
       ELSE Throw
  ELSE Null

(***************************************************************************)
(* Pending state updates.  setUser and setIsLoading only enqueue; the next *)
(* render applies the queued updates in the order they were issued.        *)
(***************************************************************************)
Update(op, id, arg) == [op |-> op, id |-> id, arg |-> arg]

MutationOps == {"updateUser", "addMedication", "removeMedication",
                "addVitalSign", "addAppointment", "updateHealthGoal"}

\* The value of user after one queued update u applied to prev.
applyUpdate(prev, u) ==
  CASE u.op = "setUser" -> u.arg
    [] u.op = "setIsLoading" -> prev
    [] u.op = "updateUser" -> updateUserFn(prev, u.arg)
    [] u.op = "addMedication" -> addMedicationFn(prev, u.arg)
    [] u.op = "removeMedication" -> removeMedicationFn(prev, u.id)
    [] u.op = "addVitalSign" -> addVitalSignFn(prev, u.arg)
    [] u.op = "addAppointment" -> addAppointmentFn(prev, u.arg)
    [] u.op = "updateHealthGoal" -> updateHealthGoalFn(prev, u.id, u.arg)

\* Mutant of processQueue: every updater computes from the committed user
\* (setUser({...user, ...}) over the render's closure), so the last one wins.
processQueueStale(q, st) ==
  LET sets == {i \in 1..Len(q) : q[i].op # "setIsLoading"}
      flags == {i \in 1..Len(q) : q[i].op = "setIsLoading"}
      last(S) == CHOOSE i \in S : \A j \in S : j <= i
      nu == IF sets = {} THEN st.user ELSE applyUpdate(st.user, q[last(sets)])
  IN  IF nu.t = "throw" THEN [st EXCEPT !.thrown = TRUE]
      ELSE [user |-> nu,
            isLoading |-> IF flags = {} THEN st.isLoading ELSE q[last(flags)].arg.n = 1,
            fresh |-> IF sets = {} THEN st.fresh ELSE nu.t \in {"obj", "arr"},
            thrown |-> FALSE]

\* The render's pass over the queue.  st = [user, isLoading, fresh, thrown]:
\* fresh says that user is an object created since the last commit, which
\* no earlier value is identical to.
RECURSIVE processQueue(_, _)
processQueue(q, st) ==
  IF q = <<>> \/ st.thrown THEN st
  ELSE LET u == Head(q)
           nu == applyUpdate(st.user, u)
       IN  IF nu.t = "throw" THEN [st EXCEPT !.thrown = TRUE]
           ELSE processQueue(Tail(q),
                  [user |-> nu,
                   isLoading |-> IF u.op = "setIsLoading" THEN u.arg.n = 1 ELSE st.isLoading,
                   fresh |-> IF u.op = "setIsLoading" THEN st.fresh
                             ELSE nu.t \in {"obj", "arr"},
                   thrown |-> FALSE])

(***************************************************************************)
(* Bounds and inputs.                                                      *)
(***************************************************************************)
\* The number of mutation calls in one behaviour, and how many of them may
\* be made before the load effect has run.
MaxOps == 2

MaxEarly == 1

Absent == [present |-> FALSE, text |-> <<>>]

Item(text) == [present |-> TRUE, text |-> text]

\* A profile saved by an earlier session: one medication with the optional
\* endDate, one appointment with the optional notes, two goals sharing an id.
savedProfile ==
  Obj(<<
    P("firstName", Str("Sam")),
    P("email", Str("sam@email.com")),
    P("notifications", Bool(FALSE)),
    P("currentMedications", Arr(<<
      Obj(<<P("id", Str("7")), P("name", Str("Aspirin")), P("endDate", Str("2024-03-01"))>>)
    >>)),
    P("healthGoals", Arr(<<
      Obj(<<P("id", Str("1")), P("type", Str("water")), P("target", Num(8)), P("current", Num(0))>>),
      Obj(<<P("id", Str("1")), P("type", Str("steps")), P("target", Num(9000)), P("current", Num(10))>>)
    >>)),
    P("vitalSigns", Arr(<<>>)),
    P("appointments", Arr(<<
      Obj(<<P("id", Str("1")), P("doctorName", Str("Dr. Lee")), P("notes", Str("fasting"))>>)
    >>))
  >>)

\* What the storage key may hold when the provider mounts: nothing, the
\* empty string, malformed texts, texts of profiles, and well-formed texts
\* that are not texts of a profile.
InitialStorage ==
  { Absent,
    Item(<<>>),
    Item(<<Tok("{"), StrTok("firstName"), Tok(":")>>),
    Item(<<Tok("ws")>> \o Stringify(savedProfile)),
    Item(<<Tok("null")>>),
    Item(<<Tok("ws"), NumTok(0)>>),
    Item(<<NumTok(5)>>),
    Item(<<Tok("{"), Tok("}")>>) }

newMedication ==
  Obj(<<P("id", Str("3")), P("name", Str("Atorvastatin")), P("dosage", Str("20mg")),
        P("frequency", Str("Once daily")), P("startDate", Str("2024-02-01")),
        P("endDate", Str("2024-08-01")), P("instructions", Str("Take at night"))>>)

\* A medication whose id duplicates the id of a default medication.
duplicateMedication ==
  Obj(<<P("id", Str("1")), P("name", Str("Ibuprofen")), P("dosage", Str("200mg")),
        P("frequency", Str("As needed")), P("startDate", Str("2024-02-02")),
        P("instructions", Str(""))>>)

Medications == {duplicateMedication}

MedicationIds == {"1", "nonexistent"}

newVitalSign ==
  Obj(<<P("id", Str("4")), P("type", Str("heart_rate")), P("value", Num(80)),
        P("unit", Str("bpm")), P("date", Str("2024-01-21")), P("time", Str("09:00"))>>)

duplicateVitalSign ==
  Obj(<<P("id", Str("1")), P("type", Str("blood_sugar")), P("value", Num(0)),
        P("unit", Str("mg/dL")), P("date", Str("2024-01-21")), P("time", Str("09:30"))>>)

VitalSigns == {newVitalSign, duplicateVitalSign}

newAppointment ==
  Obj(<<P("id", Str("2")), P("doctorName", Str("Dr. Kim")), P("specialty", Str("GP")),
        P("date", Str("2024-02-10")), P("time", Str("09:00 AM")), P("type", Str("Checkup")),
        P("status", Str("scheduled")), P("notes", Str("bring results"))>>)

Appointments == {newAppointment}

\* Partial<UserProfile> arguments of updateUser.
ProfilePatches ==
  { Obj(<<P("email", Str("x"))>>),
    Obj(<<P("notifications", Bool(FALSE)), P("currentMedications", Arr(<<newMedication>>))>>) }

GoalIds == {"1", "999"}

\* Partial<HealthGoal> arguments of updateHealthGoal.
GoalPatches == { Obj(<<P("current", Num(5))>>) }

(***************************************************************************)
(* The provider.                                                           *)
(***************************************************************************)
VARIABLES
  storage,        \* localStorage item "healthTracker_user"
  user,           \* useState<UserProfile | null>(null)
  isLoading,      \* useState(true)
  queue,          \* state updates issued and not yet rendered
  pc,             \* "mounted": first render committed, effects not yet run
  effectPending,  \* the last commit changed [user, isLoading]
  crashed,        \* an exception escaped a render or an effect
  savedUser,      \* what the load effect read from storage
  issued,         \* the mutation calls made since the load effect ran
  early,          \* the number of mutation calls made before it ran
  lastUse         \* where useUser was last called, and what came of it

vars == <<storage, user, isLoading, queue, pc, effectPending, crashed,
          savedUser, issued, early, lastUse>>

\* createContext<UserContextType | undefined>(undefined): what useContext
\* returns where no provider is above the caller.
UserContextDefault == Undefined

\* The value the provider hands to its consumers (the six callbacks, which
\* are the actions below, are not part of the value here).
contextValue(u, loading) == Obj(<<P("user", u), P("isLoading", Bool(loading))>>)

\* Mutant of useUser: the test of the context is missing.
useUserUnchecked(context) == [threw |-> FALSE, message |-> "", value |-> context]

\* useUser: raises when useContext returned undefined.
useUser(context) ==
  IF context = Undefined
  THEN [threw |-> TRUE, message |-> "useUser must be used within a UserProvider",
        value |-> Undefined]
  ELSE [threw |-> FALSE, message |-> "", value |-> context]

NotUsed == [scope |-> "none", result |-> [threw |-> FALSE, message |-> "", value |-> Undefined]]

Init ==
  /\ storage \in InitialStorage
  /\ user = Null
  /\ isLoading = TRUE
  /\ queue = <<>>
  /\ pc = "mounted"
  /\ effectPending = FALSE
  /\ crashed = FALSE
  /\ savedUser = Absent
  /\ issued = <<>>
  /\ early = 0
  /\ lastUse = NotUsed

\* Mutants of loadUpdates: the catch branch without its fallback; the else
\* branch without its default; setIsLoading(false) only on the paths that
\* did not raise.
loadUpdatesNoFallback(saved) ==
  <<Update("setUser", "",
           IF saved.present /\ saved.text # <<>>
           THEN IF Parse(saved.text).ok THEN Parse(saved.text).val ELSE Null
           ELSE defaultUser),
    Update("setIsLoading", "", Bool(FALSE))>>

loadUpdatesNoDefault(saved) ==
  <<Update("setUser", "",
           IF saved.present /\ saved.text # <<>>
           THEN IF Parse(saved.text).ok THEN Parse(saved.text).val ELSE defaultUser
           ELSE Null),
    Update("setIsLoading", "", Bool(FALSE))>>

loadUpdatesStuckLoading(saved) ==
  IF saved.present /\ saved.text # <<>> /\ ~Parse(saved.text).ok
  THEN <<Update("setUser", "", defaultUser)>>
  ELSE <<Update("setUser", "",
                IF saved.present /\ saved.text # <<>> THEN Parse(saved.text).val ELSE defaultUser),
         Update("setIsLoading", "", Bool(FALSE))>>

\* The updates the load effect issues for the item it read.
loadUpdates(saved) ==
  <<Update("setUser", "",
           IF saved.present /\ saved.text # <<>>
           THEN IF Parse(saved.text).ok THEN Parse(saved.text).val ELSE defaultUser
           ELSE defaultUser),
    Update("setIsLoading", "", Bool(FALSE))>>

\* The state of a new provider after its mount effects and its first
\* render, when it finds item in storage and no callback is called before.
freshInstance(item) ==
  processQueue(loadUpdates(item),
               [user |-> Null, isLoading |-> TRUE, fresh |-> FALSE, thrown |-> FALSE])

\* Mutant of shouldSave: the effect writes whenever it runs.
shouldSaveAlways(u, loading) == TRUE

\* The condition under which the persistence effect writes.
shouldSave(u, loading) == Truthy(u) /\ ~loading

\* Mutant of MountEffects: the load effect's updates come before the calls
\* made earlier, which are then applied to the loaded profile.
MountEffectsLoadFirst ==
  /\ pc = "mounted"
  /\ ~crashed
  /\ savedUser' = storage
  /\ queue' = loadUpdates(storage) \o queue
  /\ storage' = IF shouldSave(user, isLoading) THEN Item(Stringify(user)) ELSE storage
  /\ pc' = "running"
  /\ UNCHANGED <<user, isLoading, effectPending, crashed, issued, early, lastUse>>

\* The effects of the first commit, run in declaration order: the load
\* effect, then the persistence effect in the closure of the first render.
MountEffects ==
  /\ pc = "mounted"
  /\ ~crashed
  /\ savedUser' = storage
  /\ queue' = queue \o loadUpdates(storage)
  /\ storage' = IF shouldSave(user, isLoading) THEN Item(Stringify(user)) ELSE storage
  /\ pc' = "running"
  /\ UNCHANGED <<user, isLoading, effectPending, crashed, issued, early, lastUse>>

\* A render: applies the queued updates and commits.  An updater that
\* raises takes the component tree down.
Render ==
  /\ pc = "running"
  /\ ~crashed
  /\ ~effectPending
  /\ queue # <<>>
  /\ LET r == processQueue(queue, [user |-> user, isLoading |-> isLoading,
                                    fresh |-> FALSE, thrown |-> FALSE])
     IN  IF r.thrown
         THEN /\ crashed' = TRUE
              /\ UNCHANGED <<user, isLoading, queue, effectPending>>
         ELSE /\ user' = r.user
              /\ isLoading' = r.isLoading
              /\ queue' = <<>>
              /\ effectPending' = (r.fresh \/ r.user # user \/ r.isLoading # isLoading)
              /\ UNCHANGED crashed
  /\ UNCHANGED <<storage, pc, savedUser, issued, early, lastUse>>

\* The persistence effect after a commit that changed user or isLoading.
PersistEffect ==
  /\ pc = "running"
  /\ ~crashed
  /\ effectPending
  /\ effectPending' = FALSE
  /\ storage' = IF shouldSave(user, isLoading) THEN Item(Stringify(user)) ELSE storage
  /\ UNCHANGED <<user, isLoading, queue, pc, crashed, savedUser, issued, early, lastUse>>

\* The persistence effect when localStorage.setItem raises (quota exceeded):
\* nothing catches the exception.
PersistEffectFails ==
  /\ pc = "running"
  /\ ~crashed
  /\ effectPending
  /\ shouldSave(user, isLoading)
  /\ effectPending' = FALSE
  /\ crashed' = TRUE
  /\ UNCHANGED <<storage, user, isLoading, queue, pc, savedUser, issued, early, lastUse>>

\* A call of one of the six mutation callbacks: it issues one state update.
Call(u) ==
  /\ ~crashed
  /\ Len(issued) + early < MaxOps
  /\ pc = "mounted" => early < MaxEarly
  /\ queue' = Append(queue, u)
  /\ IF pc = "mounted"
     THEN early' = early + 1 /\ UNCHANGED issued
     ELSE issued' = Append(issued, u) /\ UNCHANGED early
  /\ UNCHANGED <<storage, user, isLoading, pc, effectPending, crashed, savedUser, lastUse>>

updateUser == \E updates \in ProfilePatches : Call(Update("updateUser", "", updates))

addMedication == \E medication \in Medications : Call(Update("addMedication", "", medication))

removeMedication == \E medicationId \in MedicationIds : Call(Update("removeMedication", medicationId, Null))

addVitalSign == \E vitalSign \in VitalSigns : Call(Update("addVitalSign", "", vitalSign))

addAppointment == \E appointment \in Appointments : Call(Update("addAppointment", "", appointment))

updateHealthGoal ==
  \E goalId \in GoalIds, updates \in GoalPatches : Call(Update("updateHealthGoal", goalId, updates))

Next ==
  \/ MountEffects
  \/ Render
  \/ PersistEffect
  \/ PersistEffectFails
  \/ updateUser
  \/ addMedication
  \/ removeMedication
  \/ addVitalSign
  \/ addAppointment
  \/ updateHealthGoal

Spec == Init /\ [][Next]_vars

\* A component below the provider calls useUser during a render.
UseUserInside ==
  /\ ~crashed
  /\ lastUse' = [scope |-> "inside", result |-> useUser(contextValue(user, isLoading))]
  /\ UNCHANGED <<storage, user, isLoading, queue, pc, effectPending, crashed,
                 savedUser, issued, early>>

\* A component with no provider above it calls useUser.
UseUserOutside ==
  /\ lastUse' = [scope |-> "outside", result |-> useUser(UserContextDefault)]
  /\ UNCHANGED <<storage, user, isLoading, queue, pc, effectPending, crashed,
                 savedUser, issued, early>>

\* The provider's initialization and persistence, with callers of useUser.
NextUse ==
  \/ MountEffects
  \/ Render
  \/ PersistEffect
  \/ PersistEffectFails
  \/ UseUserInside
  \/ UseUserOutside

SpecUse == Init /\ [][NextUse]_vars

(***************************************************************************)
(* Properties.                                                             *)
(***************************************************************************)
AllMutations(q) == \A i \in 1..Len(q) : q[i].op \in MutationOps

\* A step that is a successful render: only a commit empties the queue.
Committed == queue # <<>> /\ queue' = <<>>

\* A step that is a render, successful or not: an exception while no
\* effect is pending comes from a render.
RenderStep == queue # <<>> /\ (queue' = <<>> \/ (crashed' /\ ~crashed /\ ~effectPending))

\* The stored item the load effect read does not deserialize.
Malformed(saved) == saved.present /\ ~Parse(saved.text).ok

Items(v, key) == Get(v, key).e

\* C1: no step taken while the store is not ready (isLoading) changes the
\* storage item; storage keeps its initial content until initialization
\* has completed.
C1_NoWriteWhileLoading == [][isLoading => storage' = storage]_vars

\* The mount effects have run, mutation calls were made before and after
\* the load effect, the store is not ready, and the item is still there.
C1_Witness ==
  /\ isLoading /\ pc = "running"
  /\ early > 0 /\ issued # <<>>
  /\ storage.present /\ storage = savedUser

\* C2: once ready, whenever no persistence reaction is pending (and no
\* write has failed), storage holds the serialization of current.
C2_StorageMirrorsCurrent ==
  (~isLoading /\ ~crashed /\ ~effectPending) => storage = Item(Stringify(user))

\* C3: whenever ready is true, current is present (not null).
C3_ReadyImpliesPresent == ~isLoading => user # Null

\* C4: if the stored item is present but does not deserialize, then no
\* exception escapes before the store is ready, the store is ready once the
\* load's updates are rendered, and current is the default profile as long
\* as no later mutation has been applied.
C4_CorruptFallback ==
  (pc = "running" /\ Malformed(savedUser)) =>
    /\ isLoading => ~crashed
    /\ queue = <<>> => ~isLoading
    /\ (~isLoading /\ queue = issued) => user = defaultUser

\* A malformed (non-empty) item was read and the store became ready.
C4_Witness ==
  /\ pc = "running" /\ Malformed(savedUser) /\ savedUser.text # <<>>
  /\ ~isLoading /\ queue = issued /\ early > 0

\* C5: if the storage key holds no item when the load effect runs, then the
\* store is ready once the load's updates are rendered, and current is the
\* default profile as long as no later mutation has been applied.
C5_DefaultFallback ==
  (pc = "running" /\ ~savedUser.present) =>
    /\ queue = <<>> => ~isLoading
    /\ (~isLoading /\ queue = issued) => user = defaultUser

\* No item was stored and the store became ready.
C5_Witness ==
  /\ pc = "running" /\ ~savedUser.present
  /\ ~isLoading /\ queue = <<>> /\ issued = <<>> /\ ~effectPending

\* C6: ready never goes back to false, it changes only in the render that
\* applies the load effect's setIsLoading(false), and once the load effect's
\* updates are rendered the store is ready, whatever the stored item was.
C6_ReadyMonotone ==
  [][/\ isLoading' => isLoading
     /\ isLoading' # isLoading =>
          (Committed /\ \E i \in 1..Len(queue) : queue[i].op = "setIsLoading")
     /\ (pc' = "running" /\ queue' = <<>>) => ~isLoading']_vars

\* The store is ready after a load failure and has stayed ready through
\* later mutations and persistence reactions.
C6_Witness ==
  /\ ~isLoading /\ Malformed(savedUser)
  /\ Len(issued) = MaxOps /\ queue = <<>> /\ ~effectPending /\ ~crashed

\* C7: a render that applies only mutation updates while current is null
\* leaves current null, raises nothing, and causes no persistence reaction
\* and no storage write.
C7_AbsentNoOp ==
  [][(user = Null /\ AllMutations(queue) /\ RenderStep) =>
       /\ user' = Null
       /\ queue' = <<>>
       /\ ~crashed'
       /\ ~effectPending'
       /\ storage' = storage]_vars

\* Mutations were called and rendered while current was null.
C7_Witness ==
  /\ user = Null /\ pc = "running" /\ ~isLoading
  /\ issued # <<>> /\ queue = <<>> /\ ~effectPending

AddOps == {"addMedication", "addVitalSign", "addAppointment"}

ListOf(op) ==
  CASE op = "addMedication" -> "currentMedications"
    [] op = "addVitalSign" -> "vitalSigns"
    [] op = "addAppointment" -> "appointments"

\* The records the add calls of q for one list were given, in call order.
RECURSIVE Added(_, _)
Added(q, op) ==
  IF q = <<>> THEN <<>>
  ELSE (IF Head(q).op = op THEN <<Head(q).arg>> ELSE <<>>) \o Added(Tail(q), op)

\* C8: a render that applies only add calls to a present profile leaves
\* each of the three lists equal to the previous list followed by the added
\* records in call order.
C8_AppendsLast ==
  [][(Committed /\ user.t = "obj" /\ \A i \in 1..Len(queue) : queue[i].op \in AddOps) =>
       \A op \in AddOps :
         Items(user', ListOf(op)) = Items(user, ListOf(op)) \o Added(queue, op)]_vars

\* Two different vital signs, one with a duplicate id, were added in a row.
C8_Witness ==
  /\ user.t = "obj" /\ IsArray(Get(user, "vitalSigns"))
  /\ LET vs == Items(user, "vitalSigns")
     IN  /\ Len(vs) >= 3
         /\ vs[Len(vs) - 1] = duplicateVitalSign
         /\ vs[Len(vs)] = newVitalSign
         /\ Get(vs[1], "id") = Get(duplicateVitalSign, "id")

\* C9: a render that applies one removeMedication(id) to a present profile
\* leaves in currentMedications exactly the previous entries whose id
\* differs from id, in their previous order.
C9_RemoveFilters ==
  [][(Committed /\ user.t = "obj" /\ Len(queue) = 1 /\ queue[1].op = "removeMedication") =>
       LET Keep(med) == Get(med, "id") # Str(queue[1].id)
       IN  Items(user', "currentMedications") = SelectSeq(Items(user, "currentMedications"), Keep)]_vars

\* A medication with a duplicate id was added, then the id was removed, and
\* both entries with the id are gone.
C9_Witness ==
  /\ Len(issued) = 2 /\ queue = <<>> /\ user.t = "obj" /\ ~savedUser.present
  /\ issued[1] = Update("addMedication", "", duplicateMedication)
  /\ issued[2] = Update("removeMedication", "1", Null)
  /\ Len(Items(user, "currentMedications")) = 1

\* C10: a render that applies one updateUser(patch) to a present profile
\* gives every field of the patch the patch's value and leaves every other
\* field as it was; no field appears or disappears otherwise.
C10_ShallowMerge ==
  [][(Committed /\ user.t = "obj" /\ Len(queue) = 1 /\ queue[1].op = "updateUser") =>
       LET patch == queue[1].arg
       IN  /\ KeySet(user') = KeySet(user) \cup KeySet(patch)
           /\ \A key \in KeySet(patch) : Get(user', key) = Get(patch, key)
           /\ \A key \in KeySet(user) \ KeySet(patch) : Get(user', key) = Get(user, key)]_vars

\* A patch with a list field was applied: the list was replaced wholesale
\* and the other fields of the default profile are untouched.
C10_Witness ==
  /\ user.t = "obj" /\ ~isLoading
  /\ Get(user, "currentMedications") = Arr(<<newMedication>>)
  /\ Get(user, "notifications") = Bool(FALSE)
  /\ Get(user, "email") = Get(defaultUser, "email")
  /\ Get(user, "vitalSigns") = Get(defaultUser, "vitalSigns")

\* The render applies exactly one update, a call of op, to an object.
SingleCall(op) ==
  Committed /\ user.t = "obj" /\ Len(queue) = 1 /\ queue[1].op = op

HasGoal(v, goalId) ==
  \E i \in 1..Len(Items(v, "healthGoals")) :
    Get(Items(v, "healthGoals")[i], "id") = Str(goalId)

\* C11: a render that applies one updateHealthGoal(id, patch) to a present
\* profile none of whose goals has the id leaves healthGoals as it was.
C11_MissingGoalNoOp ==
  [][(SingleCall("updateHealthGoal") /\ ~HasGoal(user, queue[1].id)) =>
       Get(user', "healthGoals") = Get(user, "healthGoals")]_vars

\* updateHealthGoal("999", ...) alone was applied to the default profile,
\* whose goals have the ids 1, 2, 3.
C11_Witness ==
  /\ issued = <<Update("updateHealthGoal", "999", Obj(<<P("current", Num(5))>>))>>
  /\ queue = <<>> /\ ~isLoading /\ ~crashed /\ early = 0
  /\ ~savedUser.present
  /\ Len(Items(user, "healthGoals")) = 3

\* C12: a run of the persistence reaction, also one whose write fails,
\* lets no exception out of the store: the store keeps working.
C12_WriteFailureSwallowed ==
  [][(effectPending /\ ~effectPending') => ~crashed']_vars

\* C13: a call of useUser outside any provider raises an explicit error
\* and returns nothing; a call below a provider does not raise and returns
\* the provider's value, also before the store is ready.
C13_UseUserFailsFast ==
  /\ lastUse.scope = "outside" =>
       /\ lastUse.result.threw
       /\ lastUse.result.message # ""
       /\ lastUse.result.value = Undefined
  /\ lastUse.scope = "inside" =>
       /\ ~lastUse.result.threw
       /\ lastUse.result.value.t = "obj"
       /\ HasKey(lastUse.result.value, "user")
       /\ isLoading => Get(lastUse.result.value, "user") = Null

\* useUser was called outside a provider while a provider elsewhere had
\* already initialized its store.
C13_Witness ==
  /\ lastUse.scope = "outside" /\ lastUse.result.threw
  /\ pc = "running" /\ ~isLoading

\* C14: every profile a commit leaves for the persistence reaction to write
\* (the default profile, a saved profile with and without the optional endDate
\* and notes, and what the mutations make of them) is written to a text
\* that parses, and parses to a value equal to it field by field, element
\* by element and in the same order.
C14_RoundTrip ==
  (effectPending /\ queue = <<>> /\ user.t = "obj") =>
    Parse(Stringify(user)) = [ok |-> TRUE, val |-> user]

\* current holds a medication with an endDate after one without, and a
\* list that a mutation changed.
C14_Witness ==
  /\ user.t = "obj" /\ ~isLoading /\ issued # <<>> /\ queue = <<>>
  /\ effectPending
  /\ IsArray(Get(user, "currentMedications"))
  /\ LET meds == Items(user, "currentMedications")
     IN  /\ Len(meds) = 2
         /\ HasKey(meds[1], "endDate")
         /\ ~HasKey(meds[2], "endDate")

\* C15: a render that applies one updateHealthGoal(id, patch) to a present
\* profile keeps the number and order of the goals, leaves each goal with
\* another id as it was, and gives each goal with the id the patch's fields
\* while its other fields keep their values.
C15_GoalPatched ==
  [][SingleCall("updateHealthGoal") =>
       LET old == Items(user, "healthGoals")
           new == Items(user', "healthGoals")
           patch == queue[1].arg
       IN  /\ Len(new) = Len(old)
           /\ \A i \in 1..Len(old) :
                IF Get(old[i], "id") # Str(queue[1].id)
                THEN new[i] = old[i]
                ELSE /\ KeySet(new[i]) = KeySet(old[i]) \cup KeySet(patch)
                     /\ \A key \in KeySet(patch) : Get(new[i], key) = Get(patch, key)
                     /\ \A key \in KeySet(old[i]) \ KeySet(patch) :
                          Get(new[i], key) = Get(old[i], key)]_vars

\* The saved profile's two goals that share the id 1 were both patched,
\* and kept their own types and targets.
C15_Witness ==
  /\ user.t = "obj" /\ savedUser.present /\ ~isLoading
  /\ IsArray(Get(user, "healthGoals"))
  /\ LET goals == Items(user, "healthGoals")
     IN  /\ Len(goals) = 2
         /\ Get(goals[1], "current") = Num(5) /\ Get(goals[2], "current") = Num(5)
         /\ Get(goals[1], "type") = Str("water") /\ Get(goals[2], "type") = Str("steps")
         /\ Get(goals[2], "target") = Num(9000)

\* The store is ready, every issued update is rendered and the persistence
\* reaction has run for the last commit.
Settled == ~isLoading /\ ~effectPending /\ queue = <<>>

\* C16: whenever the store is ready, all mutations are applied and the
\* persistence reaction has run to its end for the last change, a new
\* provider started on the same storage becomes ready with the same current.
C16_SurvivesRestart ==
  (Settled /\ ~crashed) =>
    /\ ~freshInstance(storage).isLoading
    /\ freshInstance(storage).user = user

\* The value the load step gives current for a stored item: the parsed
\* value, or the default profile when the item is absent or does not parse.
Deserialized(saved) ==
  IF saved.present /\ Parse(saved.text).ok THEN Parse(saved.text).val ELSE defaultUser

\* The sequential composition of the calls of q, applied to v.
RECURSIVE ApplyAll(_, _)
ApplyAll(q, v) == IF q = <<>> THEN v ELSE ApplyAll(Tail(q), applyUpdate(v, Head(q)))

\* The calls made since the load step that a render has applied.
Applied == SubSeq(issued, 1, Len(issued) - Len(queue))

\* C17: when the store is ready, a render that applies the waiting mutation
\* calls leaves current equal to their composition in call order on the
\* previous current, and every value written to storage is the text of the
\* composition of all calls applied so far on the loaded value.
C17_NoLostUpdate ==
  [][/\ (Committed /\ ~isLoading /\ AllMutations(queue)) => user' = ApplyAll(queue, user)
     /\ (~isLoading /\ storage' # storage) =>
          storage' = Item(Stringify(ApplyAll(Applied, Deserialized(savedUser))))]_vars

\* Two calls were made and both are in current and in storage, neither
\* alone giving that value.
C17_Witness ==
  /\ Settled /\ ~crashed /\ Len(issued) = MaxOps
  /\ user = ApplyAll(issued, Deserialized(savedUser))
  /\ user.t = "obj"
  /\ \A i \in 1..Len(issued) : user # applyUpdate(Deserialized(savedUser), issued[i])
  /\ storage = Item(Stringify(user))

\* C18: once the store is ready after calls were made before the load
\* step, current is the loaded value (the parsed stored value, or the default
\* profile when the item is absent or does not parse) with only the calls
\* made since the load step applied: the earlier calls never show.
C18_EarlyCallDropped ==
  (early > 0 /\ ~isLoading) => user = ApplyAll(Applied, Deserialized(savedUser))

\* A call was made before the load step, none since, and the store is
\* ready with the loaded profile.
C18_Witness ==
  /\ early = MaxEarly /\ ~isLoading /\ ~crashed
  /\ issued = <<>> /\ queue = <<>>
  /\ user.t = "obj" /\ user = Deserialized(savedUser)

ListOps ==
  {"addMedication", "removeMedication", "addVitalSign", "addAppointment", "updateHealthGoal"}

\* The field a list mutation assigns.
OwnList(op) ==
  CASE op \in {"addMedication", "removeMedication"} -> "currentMedications"
    [] op = "addVitalSign" -> "vitalSigns"
    [] op = "addAppointment" -> "appointments"
    [] op = "updateHealthGoal" -> "healthGoals"

\* C19: a render that applies one list mutation to a present profile leaves
\* every field but the mutation's own list as it was, adding and dropping
\* none; a render that applies only mutation calls leaves isLoading as it
\* was.
C19_OwnListOnly ==
  [][/\ \A op \in ListOps :
          SingleCall(op) =>
            \A key \in (KeySet(user) \cup KeySet(user')) \ {OwnList(op)} :
              /\ HasKey(user, key) /\ HasKey(user', key)
              /\ Get(user', key) = Get(user, key)
     /\ (Committed /\ AllMutations(queue)) => isLoading' = isLoading]_vars

\* One addVitalSign was applied to the loaded profile: its vitalSigns grew
\* and its other fields are those that were loaded.
C19_Witness ==
  /\ issued = <<Update("addVitalSign", "", newVitalSign)>>
  /\ Settled /\ ~crashed /\ early = 0
  /\ user.t = "obj"
  /\ Get(user, "vitalSigns") # Get(Deserialized(savedUser), "vitalSigns")
  /\ \A key \in KeySet(user) \ {"vitalSigns"} :
       Get(user, key) = Get(Deserialized(savedUser), key)

====
